---- MODULE Spec2Model ----
(***************************************************************************)
(* Radar de Noticias de Impacto (src/app.py): the scoring / aggregation    *)
(* pipeline and the session refresh logic of the Streamlit script.         *)
(*                                                                         *)
(* Strings are sequences of one-character strings, so that substring       *)
(* search, lower-casing, splitting and joining are computed as the code    *)
(* computes them.  Decimal quantities are fixed point: weights, impact and *)
(* recency in thousandths, buzz_score in units of 1e-5 (the code rounds to *)
(* 3 and 5 decimals).  Time is in minutes; time.time() is in seconds.      *)
(***************************************************************************)
EXTENDS Integers, Sequences, FiniteSets, TLC

VARIABLES
  text, det_out,                       \* detect_assets_and_impact: argument, result
  world, max_items, fa_out,            \* fetch_all: what the feeds hold, cap, result
  tdf, within_minutes, trends_out,     \* aggregate_trends: table, window, result
  session_df, last_fetch, now_ts,      \* st.session_state["df"], ["last_fetch"], clock
  cfg, run                             \* config.json, what the last script run did

vars == << text, det_out, world, max_items, fa_out, tdf, within_minutes,
           trends_out, session_df, last_fetch, now_ts, cfg, run >>

\* Python's None, and the value of a result not yet computed
None == [ none |-> TRUE ]

(***************************************************************************)
(* Characters and strings                                                  *)
(***************************************************************************)
UpperAZ == << "A","B","C","D","E","F","G","H","I","J","K","L","M",
              "N","O","P","Q","R","S","T","U","V","W","X","Y","Z" >>
LowerAZ == << "a","b","c","d","e","f","g","h","i","j","k","l","m",
              "n","o","p","q","r","s","t","u","v","w","x","y","z" >>
Digits  == << "0","1","2","3","4","5","6","7","8","9" >>

\* The characters of the model in code-point order (str comparison in sorted()).
CodePoints == << " ", "$", ",", "." , "/" >> \o Digits \o << ":" >> \o UpperAZ
              \o << "[", "]" >> \o LowerAZ

Range(s) == { s[i] : i \in DOMAIN s }

IndexIn(c, s) == CHOOSE i \in DOMAIN s : s[i] = c

Ord(c) == IndexIn(c, CodePoints)

IsUpper(c) == c \in Range(UpperAZ)

\* str.lower() on one character
LowerChar(c) == IF IsUpper(c) THEN LowerAZ[IndexIn(c, UpperAZ)] ELSE c

\* str.lower()
Lower(s) == [ i \in DOMAIN s |-> LowerChar(s[i]) ]

\* k in s  (substring test)
Contains(s, k) == \E i \in 0 .. (Len(s) - Len(k)) : SubSeq(s, i + 1, i + Len(k)) = k

\* a < b for str
RECURSIVE StrLess(_, _)
StrLess(a, b) ==
  IF a = << >> THEN b # << >>
  ELSE IF b = << >> THEN FALSE
  ELSE IF a[1] # b[1] THEN Ord(a[1]) < Ord(b[1])
  ELSE StrLess(Tail(a), Tail(b))

\* sorted(list(S)) for a set of str
RECURSIVE SortedStrs(_)
SortedStrs(S) ==
  IF S = {} THEN << >>
  ELSE LET m == CHOOSE x \in S : \A y \in S \ {x} : StrLess(x, y)
       IN  << m >> \o SortedStrs(S \ {m})

\* sep.join(parts)
RECURSIVE Join(_, _)
Join(sep, parts) ==
  IF parts = << >> THEN << >>
  ELSE IF Len(parts) = 1 THEN parts[1]
  ELSE parts[1] \o sep \o Join(sep, Tail(parts))

\* s.split(c) for a one-character separator c
RECURSIVE SplitFrom(_, _, _)
SplitFrom(s, c, cur) ==
  IF s = << >> THEN << cur >>
  ELSE IF s[1] = c THEN << cur >> \o SplitFrom(Tail(s), c, << >>)
  ELSE SplitFrom(Tail(s), c, Append(cur, s[1]))

Split(s, c) == SplitFrom(s, c, << >>)

\* s.strip(): the model's only whitespace is the space
RECURSIVE LStrip(_)
LStrip(s) == IF s # << >> /\ s[1] = " " THEN LStrip(Tail(s)) ELSE s

RECURSIVE RStrip(_)
RStrip(s) ==
  IF s # << >> /\ s[Len(s)] = " " THEN RStrip(SubSeq(s, 1, Len(s) - 1)) ELSE s

Strip(s) == RStrip(LStrip(s))

Max(a, b) == IF a >= b THEN a ELSE b
Min(a, b) == IF a <= b THEN a ELSE b

(***************************************************************************)
(* Configuration tables                                                    *)
(***************************************************************************)
HALF_LIFE_HOURS == 6
MAX_ITEMS_PER_FEED == 50
CACHE_TTL_MIN == 10
DEFAULT_SOURCE_WEIGHT == 600

\* SOURCE_WEIGHTS (app.py 52-69): <<domain, weight in thousandths>>
SOURCE_WEIGHTS ==
  << <<<<"c","n","b","c",".","c","o","m">>, 1000>>,
     <<<<"m","a","r","k","e","t","w","a","t","c","h",".","c","o","m">>, 900>>,
     <<<<"w","s","j",".","c","o","m">>, 900>>,
     <<<<"f","t",".","c","o","m">>, 900>>,
     <<<<"c","n","n",".","c","o","m">>, 700>>,
     <<<<"y","a","h","o","o",".","c","o","m">>, 800>>,
     <<<<"c","o","i","n","d","e","s","k",".","c","o","m">>, 800>>,
     <<<<"c","o","i","n","t","e","l","e","g","r","a","p","h",".","c","o","m">>, 700>>,
     <<<<"b","l","o","o","m","b","e","r","g","l","i","n","e","a",".","c","o","m">>, 900>>,
     <<<<"e","l","e","c","o","n","o","m","i","s","t","a",".","e","s">>, 800>>,
     <<<<"e","x","p","a","n","s","i","o","n",".","c","o","m">>, 800>>,
     <<<<"e","l","p","a","i","s",".","c","o","m">>, 700>>,
     <<<<"p","r","e","n","s","a",".","c","o","m">>, 800>>,
     <<<<"a","n","p","a","n","a","m","a",".","c","o","m">>, 700>>,
     <<<<"l","a","e","s","t","r","e","l","l","a",".","c","o","m",".","p","a">>, 700>>,
     <<<<"g","o","o","g","l","e",".","c","o","m">>, 600>> >>

\* IMPACT_KEYWORDS (app.py 73-96): <<keyword, weight in thousandths>>
IMPACT_KEYWORDS ==
  << <<<<"c","p","i">>, 1000>>,
     <<<<"i","n","f","l","a","t","i","o","n">>, 1000>>,
     <<<<"p","p","i">>, 900>>,
     <<<<"g","d","p">>, 900>>,
     <<<<"p","a","y","r","o","l","l","s">>, 1000>>,
     <<<<"j","o","b","s"," ","r","e","p","o","r","t">>, 1000>>,
     <<<<"u","n","e","m","p","l","o","y","m","e","n","t">>, 900>>,
     <<<<"f","o","m","c">>, 1000>>,
     <<<<"f","e","d">>, 1000>>,
     <<<<"r","a","t","e"," ","h","i","k","e">>, 1000>>,
     <<<<"r","a","t","e"," ","c","u","t">>, 1000>>,
     <<<<"p","c","e">>, 900>>,
     <<<<"r","e","t","a","i","l"," ","s","a","l","e","s">>, 800>>,
     <<<<"i","s","m">>, 800>>,
     <<<<"p","m","i">>, 800>>,
     <<<<"e","c","b">>, 1000>>,
     <<<<"b","a","n","k"," ","o","f"," ","e","n","g","l","a","n","d">>, 900>>,
     <<<<"b","a","n","x","i","c","o">>, 800>>,
     <<<<"b","a","n","r","e","p">>, 800>>,
     <<<<"b","c","b">>, 800>>,
     <<<<"b","c","r","p">>, 700>>,
     <<<<"o","p","e","c">>, 1000>>,
     <<<<"p","r","o","d","u","c","t","i","o","n"," ","c","u","t">>, 900>>,
     <<<<"s","u","p","p","l","y">>, 700>>,
     <<<<"b","r","e","n","t">>, 700>>,
     <<<<"w","t","i">>, 700>>,
     <<<<"e","a","r","n","i","n","g","s">>, 1000>>,
     <<<<"g","u","i","d","a","n","c","e">>, 1000>>,
     <<<<"d","o","w","n","g","r","a","d","e">>, 900>>,
     <<<<"u","p","g","r","a","d","e">>, 900>>,
     <<<<"m","e","r","g","e","r">>, 1000>>,
     <<<<"a","c","q","u","i","s","i","t","i","o","n">>, 1000>>,
     <<<<"a","n","t","i","t","r","u","s","t">>, 800>>,
     <<<<"l","a","w","s","u","i","t">>, 700>>,
     <<<<"d","i","v","i","d","e","n","d">>, 700>>,
     <<<<"b","u","y","b","a","c","k">>, 700>>,
     <<<<"e","t","f">>, 900>>,
     <<<<"s","e","c">>, 800>>,
     <<<<"h","a","c","k">>, 900>>,
     <<<<"h","a","l","v","i","n","g">>, 700>>,
     <<<<"b","i","n","a","n","c","e">>, 800>>,
     <<<<"c","o","i","n","b","a","s","e">>, 800>>,
     <<<<"b","i","t","c","o","i","n">>, 800>>,
     <<<<"e","t","h","e","r","e","u","m">>, 700>> >>

\* KEYWORD_TO_ASSETS (app.py 99-146): <<keyword, list of assets>>
KEYWORD_TO_ASSETS ==
  << <<<<"f","e","d">>, <<<<"U","S","D">>, <<"U","S","5","0","0">>, <<"X","A","U","U","S","D">>, <<"U","S","1","0","Y">>>>>>,
     <<<<"c","p","i">>, <<<<"U","S","D">>, <<"U","S","5","0","0">>, <<"X","A","U","U","S","D">>>>>>,
     <<<<"i","n","f","l","a","t","i","o","n">>, <<<<"U","S","D">>, <<"U","S","5","0","0">>, <<"X","A","U","U","S","D">>>>>>,
     <<<<"p","p","i">>, <<<<"U","S","D">>, <<"U","S","5","0","0">>>>>>,
     <<<<"g","d","p">>, <<<<"U","S","D">>, <<"U","S","5","0","0">>>>>>,
     <<<<"p","a","y","r","o","l","l","s">>, <<<<"U","S","D">>, <<"U","S","5","0","0">>, <<"X","A","U","U","S","D">>>>>>,
     <<<<"u","n","e","m","p","l","o","y","m","e","n","t">>, <<<<"U","S","D">>, <<"U","S","5","0","0">>>>>>,
     <<<<"f","o","m","c">>, <<<<"U","S","D">>, <<"U","S","5","0","0">>, <<"X","A","U","U","S","D">>>>>>,
     <<<<"r","a","t","e"," ","h","i","k","e">>, <<<<"U","S","D">>, <<"U","S","5","0","0">>, <<"X","A","U","U","S","D">>>>>>,
     <<<<"r","a","t","e"," ","c","u","t">>, <<<<"U","S","D">>, <<"U","S","5","0","0">>, <<"X","A","U","U","S","D">>>>>>,
     <<<<"p","c","e">>, <<<<"U","S","D">>, <<"U","S","5","0","0">>, <<"X","A","U","U","S","D">>>>>>,
     <<<<"r","e","t","a","i","l"," ","s","a","l","e","s">>, <<<<"U","S","D">>, <<"U","S","5","0","0">>>>>>,
     <<<<"e","c","b">>, <<<<"E","U","R","U","S","D">>, <<"D","E","4","0">>, <<"E","U","5","0">>>>>>,
     <<<<"b","a","n","k"," ","o","f"," ","e","n","g","l","a","n","d">>, <<<<"G","B","P","U","S","D">>, <<"U","K","1","0","0">>>>>>,
     <<<<"b","a","n","x","i","c","o">>, <<<<"U","S","D","M","X","N">>>>>>,
     <<<<"b","a","n","r","e","p">>, <<<<"U","S","D","C","O","P">>>>>>,
     <<<<"b","c","b">>, <<<<"U","S","D","B","R","L">>>>>>,
     <<<<"b","c","r","p">>, <<<<"U","S","D","/","P","E","N">>>>>>,
     <<<<"o","p","e","c">>, <<<<"O","I","L">>, <<"U","S","D","C","A","D">>, <<"U","S","D","N","O","K">>>>>>,
     <<<<"p","r","o","d","u","c","t","i","o","n"," ","c","u","t">>, <<<<"O","I","L">>>>>>,
     <<<<"b","r","e","n","t">>, <<<<"O","I","L">>>>>>,
     <<<<"w","t","i">>, <<<<"O","I","L">>>>>>,
     <<<<"e","a","r","n","i","n","g","s">>, <<<<"U","S","5","0","0">>, <<"U","S","1","0","0">>>>>>,
     <<<<"g","u","i","d","a","n","c","e">>, <<<<"U","S","5","0","0">>, <<"U","S","1","0","0">>>>>>,
     <<<<"d","o","w","n","g","r","a","d","e">>, <<<<"U","S","5","0","0">>, <<"U","S","1","0","0">>>>>>,
     <<<<"u","p","g","r","a","d","e">>, <<<<"U","S","5","0","0">>, <<"U","S","1","0","0">>>>>>,
     <<<<"m","e","r","g","e","r">>, <<<<"U","S","5","0","0">>, <<"U","S","1","0","0">>>>>>,
     <<<<"a","c","q","u","i","s","i","t","i","o","n">>, <<<<"U","S","5","0","0">>, <<"U","S","1","0","0">>>>>>,
     <<<<"b","i","t","c","o","i","n">>, <<<<"B","T","C","U","S","D">>>>>>,
     <<<<"e","t","h","e","r","e","u","m">>, <<<<"E","T","H","U","S","D">>>>>>,
     <<<<"e","t","f">>, <<<<"B","T","C","U","S","D">>, <<"U","S","5","0","0">>>>>>,
     <<<<"s","e","c">>, <<<<"B","T","C","U","S","D">>, <<"U","S","5","0","0">>>>>>,
     <<<<"h","a","c","k">>, <<<<"B","T","C","U","S","D">>, <<"E","T","H","U","S","D">>>>>>,
     <<<<"b","i","n","a","n","c","e">>, <<<<"B","T","C","U","S","D">>, <<"E","T","H","U","S","D">>>>>>,
     <<<<"c","o","i","n","b","a","s","e">>, <<<<"B","T","C","U","S","D">>, <<"E","T","H","U","S","D">>>>>> >>

\* dict.get(k, default) on a table of <<key, value>> pairs
Get(table, k, default) ==
  IF \E i \in DOMAIN table : table[i][1] = k
  THEN table[CHOOSE i \in DOMAIN table : table[i][1] = k][2]
  ELSE default

(***************************************************************************)
(* detect_assets_and_impact                                                *)
(***************************************************************************)
\* A plausible slip: one contribution per occurrence instead of per keyword.
RECURSIVE Occurrences(_, _)
Occurrences(s, k) ==
  IF Len(s) < Len(k) THEN 0
  ELSE (IF SubSeq(s, 1, Len(k)) = k THEN 1 ELSE 0) + Occurrences(Tail(s), k)

KeywordImpactPerOccurrence(text_l, k, w) == w * Occurrences(text_l, k)

\* if k in text_l: impact += w
KeywordImpact(text_l, k, w) == IF Contains(text_l, k) THEN w ELSE 0

\* for k, w in IMPACT_KEYWORDS.items(): ...
RECURSIVE KeywordScan(_, _, _, _)
KeywordScan(text_l, i, impact, assets) ==
  IF i > Len(IMPACT_KEYWORDS) THEN [ impact |-> impact, assets |-> assets ]
  ELSE LET k == IMPACT_KEYWORDS[i][1]
           w == IMPACT_KEYWORDS[i][2]
       IN  IF Contains(text_l, k)
           THEN KeywordScan(text_l, i + 1, impact + KeywordImpact(text_l, k, w),
                            assets \cup Range(Get(KEYWORD_TO_ASSETS, k, << >>)))
           ELSE KeywordScan(text_l, i + 1, impact, assets)

\* the length of the run of [A-Z] that starts s, at most n long
RECURSIVE UpperRun(_, _)
UpperRun(s, n) ==
  IF n = 0 \/ s = << >> THEN 0
  ELSE IF IsUpper(s[1]) THEN 1 + UpperRun(Tail(s), n - 1) ELSE 0

\* re.findall(r"\$[A-Z]{1,5}", s): the non-overlapping greedy matches, left to right
RECURSIVE FindTickers(_)
FindTickers(s) ==
  IF s = << >> THEN << >>
  ELSE LET n == UpperRun(Tail(s), 5)
       IN  IF s[1] = "$" /\ n >= 1
           THEN << SubSeq(s, 1, 1 + n) >> \o FindTickers(SubSeq(s, n + 2, Len(s)))
           ELSE FindTickers(Tail(s))

US100 == << "U","S","1","0","0" >>
US500 == << "U","S","5","0","0" >>

detect_assets_and_impact(t) ==
  LET text_l == Lower(t)
      scan   == KeywordScan(text_l, 1, 0, {})
      assets == IF FindTickers(t) # << >>
                THEN scan.assets \cup { US100, US500 }
                ELSE scan.assets
  IN  [ assets |-> SortedStrs(assets), impact |-> scan.impact ]

(***************************************************************************)
(* Specification of detect_assets_and_impact over bounded texts            *)
(***************************************************************************)
MaxFrags == 4

TextFragments ==
  { << "F","e","d" >>, << "f","e","d" >>, << "s" >>, << "e","c","b" >>,
    << "i","s","m" >>, << "$" >>, << "T" >>, << "t" >>, << " " >> }

RECURSIVE TextsUpTo(_)
TextsUpTo(n) ==
  IF n = 0 THEN { << >> }
  ELSE LET shorter == TextsUpTo(n - 1)
       IN  shorter \cup { f \o s : f \in TextFragments, s \in shorter }

\* time.time() at the first observation: a whole number of half-lives after the
\* epoch, so that the ages of the model's entries are whole half-lives
StartTs == 60 * 60 * HALF_LIFE_HOURS * 4

IdleDetect == text = << >> /\ det_out = None
IdleFetch  == world = << >> /\ max_items = 0 /\ fa_out = None
IdleTrends == tdf = << >> /\ within_minutes = 0 /\ trends_out = None
IdleApp    == session_df = None /\ last_fetch = 0 /\ cfg = None /\ run = None

detVars   == << text, det_out >>
fetchVars == << world, max_items, fa_out >>
trendVars == << tdf, within_minutes, trends_out >>
appVars   == << session_df, last_fetch, cfg, run >>

InitDetect ==
  /\ text \in TextsUpTo(MaxFrags)
  /\ det_out = None
  /\ now_ts = StartTs
  /\ IdleFetch /\ IdleTrends /\ IdleApp

DetectAssetsAndImpact ==
  /\ det_out = None
  /\ det_out' = detect_assets_and_impact(text)
  /\ UNCHANGED << text, now_ts, fetchVars, trendVars, appVars >>

NextDetect == DetectAssetsAndImpact

SpecDetect == InitDetect /\ [][NextDetect]_vars

\* The keywords of the table that occur in the lower-cased text.
MatchedKeywords(t) ==
  { i \in DOMAIN IMPACT_KEYWORDS : Contains(Lower(t), IMPACT_KEYWORDS[i][1]) }

RECURSIVE SumWeights(_)
SumWeights(S) ==
  IF S = {} THEN 0
  ELSE LET i == CHOOSE j \in S : TRUE
       IN  IMPACT_KEYWORDS[i][2] + SumWeights(S \ {i})

\* The original-case text holds a "$" directly followed by an uppercase letter.
HasTicker(t) == \E i \in 1 .. (Len(t) - 1) : t[i] = "$" /\ IsUpper(t[i + 1])

\* C7: impact is the sum of the weights of the distinct keywords that occur in
\* the lower-cased text, each once; the assets are the union of the mapped assets
\* of exactly those keywords, plus US100 and US500 iff the original-case text has
\* a "$" followed by 1 to 5 uppercase letters; the ticker rule leaves impact alone.
C7_DetectImpactAndAssets ==
  det_out # None =>
    /\ det_out.impact = SumWeights(MatchedKeywords(text))
    /\ Range(det_out.assets) =
         UNION { Range(Get(KEYWORD_TO_ASSETS, IMPACT_KEYWORDS[i][1], << >>)) :
                 i \in MatchedKeywords(text) }
         \cup (IF HasTicker(text) THEN { US100, US500 } ELSE {})
    /\ Len(det_out.assets) = Cardinality(Range(det_out.assets))

\* A keyword occurring twice and a ticker in one text.
C7_Witness ==
  /\ det_out # None
  /\ Occurrences(Lower(text), << "f","e","d" >>) = 2
  /\ HasTicker(text)
  /\ det_out.impact = 1000
  /\ US100 \in Range(det_out.assets)

(***************************************************************************)
(* Feed normalisation and scoring                                          *)
(***************************************************************************)
\* tz_now(), in minutes
tz_now == now_ts \div 60

\* getattr(e, name, "") or ""  -- an entry is a record of the attributes it has
GetAttr(e, name) == IF name \in DOMAIN e THEN e[name] ELSE << >>

to_dt(entry) ==
  IF "published_parsed" \in DOMAIN entry THEN entry.published_parsed
  ELSE IF "updated_parsed" \in DOMAIN entry THEN entry.updated_parsed
  ELSE tz_now

SchemeChars == Range(LowerAZ) \cup Range(UpperAZ) \cup Range(Digits) \cup { "+", "-", "." }

\* index of the first character of s that is in set C, from position from; 0 if none
FindAny(s, C, from) ==
  IF \E i \in from .. Len(s) : s[i] \in C
  THEN CHOOSE i \in from .. Len(s) : s[i] \in C /\ \A j \in from .. (i - 1) : s[j] \notin C
  ELSE 0

\* urlsplit: what follows the scheme
AfterScheme(url) ==
  LET colon == FindAny(url, { ":" }, 1)
  IN  IF /\ colon > 1
         /\ url[1] \in Range(LowerAZ) \cup Range(UpperAZ)
         /\ \A j \in 1 .. (colon - 1) : url[j] \in SchemeChars
      THEN SubSeq(url, colon + 1, Len(url))
      ELSE url

\* urlparse(url).netloc, or the ValueError urlsplit raises on an unbalanced bracket
urlparse_netloc(url) ==
  LET rest == AfterScheme(url)
  IN  IF Len(rest) >= 2 /\ SubSeq(rest, 1, 2) = << "/", "/" >>
      THEN LET delim  == FindAny(rest, { "/", "?", "#" }, 3)
               netloc == SubSeq(rest, 3, IF delim = 0 THEN Len(rest) ELSE delim - 1)
           IN  [ raises |-> ("[" \in Range(netloc)) # ("]" \in Range(netloc)),
                 netloc |-> netloc ]
      ELSE [ raises |-> FALSE, netloc |-> << >> ]

domain_weight(link) ==
  LET p == urlparse_netloc(link)
  IN  IF p.raises THEN DEFAULT_SOURCE_WEIGHT
      ELSE LET netloc == Lower(p.netloc)
               parts  == Split(netloc, ".")
               dom    == IF Len(parts) >= 2
                         THEN Join(<< "." >>, SubSeq(parts, Len(parts) - 1, Len(parts)))
                         ELSE netloc
           IN  Get(SOURCE_WEIGHTS, dom, DEFAULT_SOURCE_WEIGHT)

\* whole half-lives elapsed since dt; the model's ages are multiples of the half-life,
\* for which exp(-ln(2)/H * hours) is exactly 2^-(hours/H)
HalfLives(dt) == Max(tz_now - dt, 0) \div (60 * HALF_LIFE_HOURS)

\* recency_score, in thousandths
recency_score(dt) == 1000 \div (2 ^ HalfLives(dt))

\* round(): n/d to the nearest integer, ties to even
RoundDiv(n, d) ==
  LET q == n \div d
      r == n % d
  IN  IF 2 * r < d THEN q
      ELSE IF 2 * r > d THEN q + 1
      ELSE IF q % 2 = 0 THEN q ELSE q + 1

\* round(rec * (0.6 + 0.3*impact + 0.1*source_w), 5), in units of 1e-5
buzz_score(dt, impact, source_w) ==
  RoundDiv(60000 + 30 * impact + 10 * source_w, 2 ^ HalfLives(dt))

\* hashlib.sha256(title + link).hexdigest()[:16]: the digest is represented by the
\* byte string that is hashed (no collision of the 64-bit digest is modelled)
hash_id(title, link) == title \o link

\* The body of the loop over the entries of one feed: the row appended for entry e
\* of the feed at url, or the exception urlparse raises on its link.
ProcessEntry(e, url) ==
  LET title   == GetAttr(e, "title")
      summary == GetAttr(e, "summary")
      link    == GetAttr(e, "link")
      dt      == to_dt(e)
      det     == detect_assets_and_impact(title \o << " " >> \o summary)
      lnk     == urlparse_netloc(link)
      feed    == urlparse_netloc(url)
  IN  IF lnk.raises \/ (lnk.netloc = << >> /\ feed.raises)
      THEN [ raises |-> TRUE ]
      ELSE [ raises |-> FALSE,
             row |-> [ id            |-> hash_id(title, link),
                       time          |-> dt,
                       time_ago_min  |-> Max(tz_now - dt, 0),
                       title         |-> title,
                       summary       |-> summary,
                       link          |-> link,
                       assets        |-> Join(<< ",", " " >>, det.assets),
                       impact        |-> det.impact,
                       source_weight |-> domain_weight(link),
                       recency       |-> recency_score(dt),
                       buzz_score    |-> buzz_score(dt, det.impact, domain_weight(link)),
                       source        |-> IF lnk.netloc # << >> THEN lnk.netloc
                                         ELSE feed.netloc ] ]

\* for e in parsed.entries[:max_items]: rows.append(...), up to the first entry
\* that raises; the rows appended before it stay in the list
RECURSIVE AppendEntries(_, _, _)
AppendEntries(rows, entries, url) ==
  IF entries = << >> THEN rows
  ELSE LET p == ProcessEntry(entries[1], url)
       IN  IF p.raises THEN rows
           ELSE AppendEntries(Append(rows, p.row), Tail(entries), url)

\* for url in feeds: try: ... except Exception: continue
RECURSIVE CollectRows(_, _, _)
CollectRows(rows, feeds, cap) ==
  IF feeds = << >> THEN rows
  ELSE LET f == feeds[1]
       IN  CollectRows(
             IF f.raises THEN rows
             ELSE AppendEntries(rows, SubSeq(f.entries, 1, Min(cap, Len(f.entries))), f.url),
             Tail(feeds), cap)

(***************************************************************************)
(* Deduplication, ranking, fetch_all                                       *)
(***************************************************************************)
\* A plausible slip: drop_duplicates(subset=["id"], keep="last")
RECURSIVE DropDuplicatesKeepLast(_)
DropDuplicatesKeepLast(rows) ==
  IF rows = << >> THEN << >>
  ELSE IF \E j \in 2 .. Len(rows) : rows[j].id = rows[1].id
       THEN DropDuplicatesKeepLast(Tail(rows))
       ELSE << rows[1] >> \o DropDuplicatesKeepLast(Tail(rows))

\* df.drop_duplicates(subset=["id"]): keep="first" is the default
drop_duplicates(rows) ==
  LET keep == { i \in DOMAIN rows : \A j \in 1 .. (i - 1) : rows[j].id # rows[i].id }
      RECURSIVE Pick(_)
      Pick(i) == IF i > Len(rows) THEN << >>
                 ELSE (IF i \in keep THEN << rows[i] >> ELSE << >>) \o Pick(i + 1)
  IN  Pick(1)

\* rows inserted one by one, each after the rows whose buzz_score is >= its own
RECURSIVE InsertDesc(_, _)
InsertDesc(sorted, r) ==
  IF sorted = << >> THEN << r >>
  ELSE IF sorted[1].buzz_score >= r.buzz_score
       THEN << sorted[1] >> \o InsertDesc(Tail(sorted), r)
       ELSE << r >> \o sorted

RECURSIVE StableSortDesc(_)
StableSortDesc(rows) ==
  IF rows = << >> THEN << >>
  ELSE InsertDesc(StableSortDesc(SubSeq(rows, 1, Len(rows) - 1)), rows[Len(rows)])

\* every ordering of the sequence s
Orderings(s) == { [ i \in DOMAIN s |-> s[f[i]] ] : f \in Permutations(DOMAIN s) }

\* the orderings of a descending table that differ only inside its runs of equal keys
RECURSIVE TieOrders(_)
TieOrders(sorted) ==
  IF sorted = << >> THEN { << >> }
  ELSE LET n == CHOOSE k \in 1 .. Len(sorted) :
                  /\ \A i \in 1 .. k : sorted[i].buzz_score = sorted[1].buzz_score
                  /\ k < Len(sorted) => sorted[k + 1].buzz_score # sorted[1].buzz_score
       IN  { p \o q : p \in Orderings(SubSeq(sorted, 1, n)),
                      q \in TieOrders(SubSeq(sorted, n + 1, Len(sorted))) }

\* df.sort_values("buzz_score", ascending=False): kind defaults to "quicksort", which
\* is not stable, so rows of equal buzz_score may come out in any order
sort_values(rows) == TieOrders(StableSortDesc(rows))

\* the keys of the row dict, in insertion order
RowColumns ==
  << "id", "time", "time_ago_min", "title", "summary", "link", "assets", "impact",
     "source_weight", "recency", "buzz_score", "source" >>

\* pd.DataFrame(columns=[...])
EmptyColumns ==
  << "id", "time", "time_ago_min", "title", "summary", "link", "assets", "impact",
     "source_weight", "recency", "buzz_score", "source" >>

\* The tables fetch_all(feeds, max_items) may return; it has no path that raises.
fetch_all(feeds, cap) ==
  LET rows == CollectRows(<< >>, feeds, cap)
  IN  IF rows = << >>
      THEN { [ columns |-> EmptyColumns, rows |-> << >> ] }
      ELSE { [ columns |-> RowColumns, rows |-> t ] :
             t \in sort_values(drop_duplicates(rows)) }

(***************************************************************************)
(* Specification of fetch_all over bounded feeds                           *)
(***************************************************************************)
MaxEntries == 2

FeedUrls == << << "/","/","a",".","e","s" >>, << "/","/","b",".","e","s","/","r" >> >>

Fed     == << "F","e","d" >>
CnbcUrl == << "h","t","t","p",":","/","/","w","w","w",".","c","n","b","c",".","c","o","m","/","a" >>

\* The entries a feed may hold: complete; without title, link and timestamp (twice,
\* with different summaries, the second one half-life old); with a link urlparse
\* rejects; with a title only.
EntryPool ==
  { [ title |-> Fed, link |-> CnbcUrl, published_parsed |-> tz_now ],
    [ summary |-> << "x" >> ],
    [ summary |-> << "c","p","i" >>, updated_parsed |-> tz_now - 60 * HALF_LIFE_HOURS ],
    [ title |-> << "y" >>, link |-> << "/","/","[" >> ],
    [ title |-> << "y" >> ] }

RECURSIVE SeqsUpTo(_, _)
SeqsUpTo(S, n) ==
  IF n = 0 THEN { << >> }
  ELSE LET shorter == SeqsUpTo(S, n - 1)
       IN  shorter \cup { << x >> \o s : x \in S, s \in { t \in shorter : Len(t) = n - 1 } }

\* what feedparser.parse(url) does: raise, or return entries
FeedOutcomes(url) ==
  { [ url |-> url, raises |-> TRUE, entries |-> << >> ] }
  \cup { [ url |-> url, raises |-> FALSE, entries |-> es ] :
         es \in SeqsUpTo(EntryPool, MaxEntries) }

RECURSIVE Worlds(_)
Worlds(n) ==
  IF n = 0 THEN { << >> }
  ELSE { Append(w, f) : w \in Worlds(n - 1), f \in FeedOutcomes(FeedUrls[n]) }

InitFetch ==
  /\ now_ts = StartTs
  /\ world \in UNION { Worlds(n) : n \in 0 .. Len(FeedUrls) }
  /\ max_items \in { 1, MAX_ITEMS_PER_FEED }
  /\ fa_out = None
  /\ IdleDetect /\ IdleTrends /\ IdleApp

FetchAll ==
  /\ fa_out = None
  /\ fa_out' \in fetch_all(world, max_items)
  /\ UNCHANGED << world, max_items, now_ts, detVars, trendVars, appVars >>

NextFetch == FetchAll

SpecFetch == InitFetch /\ [][NextFetch]_vars

\* The rows fetch_all appended, in fetch order (before deduplication).
FetchedRows == CollectRows(<< >>, world, max_items)

\* The entries of feed f that fetch_all consumes.
Consumed(f) == SubSeq(f.entries, 1, Min(max_items, Len(f.entries)))

\* Feed f failed: the parser raised, or processing one of its entries raised.
FeedFailed(f) ==
  f.raises \/ \E i \in DOMAIN Consumed(f) : ProcessEntry(Consumed(f)[i], f.url).raises

\* The rows of the feeds that did not fail, in fetch order.
RECURSIVE RowsOfSuccessful(_)
RowsOfSuccessful(feeds) ==
  IF feeds = << >> THEN << >>
  ELSE (IF FeedFailed(feeds[1]) THEN << >>
        ELSE [ i \in DOMAIN Consumed(feeds[1]) |->
                 ProcessEntry(Consumed(feeds[1])[i], feeds[1].url).row ])
       \o RowsOfSuccessful(Tail(feeds))

\* The position in rows of its first row with this id.
FirstWithId(rows, id) ==
  CHOOSE i \in DOMAIN rows : rows[i].id = id /\ \A j \in 1 .. (i - 1) : rows[j].id # id

\* C1: the result holds exactly the items of the sources that did not fail, after
\* deduplication by id; a failed source contributes no item at all.
C1_OnlySuccessfulSources ==
  fa_out # None =>
    Range(fa_out.rows) = Range(drop_duplicates(RowsOfSuccessful(world)))

\* C2: no two rows of the result share an id, every fetched id is in the result,
\* and the row kept for an id is the first one fetched with that id.
C2_DedupKeepsFirst ==
  fa_out # None =>
    \A fetched \in { FetchedRows } :
      /\ \A i, j \in DOMAIN fa_out.rows : fa_out.rows[i].id = fa_out.rows[j].id => i = j
      /\ \A i \in DOMAIN fetched : \E j \in DOMAIN fa_out.rows :
           fa_out.rows[j].id = fetched[i].id
      /\ \A j \in DOMAIN fa_out.rows :
           fa_out.rows[j] = fetched[FirstWithId(fetched, fa_out.rows[j].id)]

\* Two different rows with one id were fetched, beside a row with another id.
C2_Witness ==
  /\ fa_out # None
  /\ Len(fa_out.rows) >= 2
  /\ \E fetched \in { FetchedRows } : \E i, j \in DOMAIN fetched :
       /\ i < j
       /\ fetched[i].id = fetched[j].id
       /\ fetched[i].summary # fetched[j].summary
       /\ fetched[i] \in Range(fa_out.rows)

\* C3: the result is ordered by buzz_score descending, and rows of equal buzz_score
\* keep the relative order in which they were fetched.
C3_SortedStable ==
  fa_out # None =>
    \A fetched \in { FetchedRows } : \A i, j \in DOMAIN fa_out.rows : i < j =>
      /\ fa_out.rows[i].buzz_score >= fa_out.rows[j].buzz_score
      /\ fa_out.rows[i].buzz_score = fa_out.rows[j].buzz_score =>
           FirstWithId(fetched, fa_out.rows[i].id) < FirstWithId(fetched, fa_out.rows[j].id)

\* C4: when every source fails, no source yields an entry or the feed list is
\* empty, the result is an empty table with the twelve columns.
C4_EmptyWhenAllFail ==
  (fa_out # None /\ \A i \in DOMAIN world : FeedFailed(world[i]) \/ world[i].entries = << >>) =>
    /\ fa_out.rows = << >>
    /\ fa_out.columns =
         << "id", "time", "time_ago_min", "title", "summary", "link", "assets",
            "impact", "source_weight", "recency", "buzz_score", "source" >>

\* C5: every consumed entry of a feed that did not fail has a row in the result,
\* with missing text fields as the empty string and a missing timestamp as now.
C5_NoEntryDropped ==
  fa_out # None =>
    \A i \in DOMAIN world : ~FeedFailed(world[i]) =>
      \A k \in DOMAIN Consumed(world[i]) :
        LET e == Consumed(world[i])[k]
        IN  \E j \in DOMAIN fa_out.rows :
              /\ fa_out.rows[j].title = GetAttr(e, "title")
              /\ fa_out.rows[j].summary = GetAttr(e, "summary")
              /\ fa_out.rows[j].link = GetAttr(e, "link")
              /\ fa_out.rows[j].time = to_dt(e)

(***************************************************************************)
(* aggregate_trends                                                        *)
(***************************************************************************)
RECURSIVE GCD(_, _)
GCD(a, b) == IF b = 0 THEN a ELSE GCD(b, a % b)

\* the mean sum/n, as a fraction in lowest terms
Mean(sum, n) ==
  LET g == GCD(sum, n) IN [ num |-> sum \div g, den |-> n \div g ]

\* x > y for two means
MeanGreater(x, y) == x.num * y.den > y.num * x.den

\* A plausible slip: the cutoff itself excluded
WithinWindowStrict(r, minutes) == r.time > tz_now - minutes

\* df["time"] >= tz_now() - timedelta(minutes=within_minutes)
WithinWindow(r, minutes) == r.time >= tz_now - minutes

\* [a.strip() for a in (r["assets"] or "").split(",") if a.strip()]
AssetsOfRow(r) ==
  LET parts == Split(r.assets, ",")
      RECURSIVE Clean(_)
      Clean(ps) == IF ps = << >> THEN << >>
                   ELSE (IF Strip(ps[1]) # << >> THEN << Strip(ps[1]) >> ELSE << >>)
                        \o Clean(Tail(ps))
  IN  Clean(parts)

\* assets_expanded: one (asset, buzz) pair per asset of each retained row
RECURSIVE Explode(_)
Explode(rows) ==
  IF rows = << >> THEN << >>
  ELSE [ i \in DOMAIN AssetsOfRow(rows[1]) |->
           [ asset |-> AssetsOfRow(rows[1])[i], buzz |-> rows[1].buzz_score ] ]
       \o Explode(Tail(rows))

RECURSIVE SumBuzz(_)
SumBuzz(pairs) == IF pairs = << >> THEN 0 ELSE pairs[1].buzz + SumBuzz(Tail(pairs))

\* tmp.groupby("asset").agg(count=("asset","count"), avg_buzz=("buzz","mean")): one row
\* per asset, in ascending order of the asset
GroupByAsset(pairs) ==
  LET keys == SortedStrs({ pairs[i].asset : i \in DOMAIN pairs })
      Of(a) == SelectSeq(pairs, LAMBDA p : p.asset = a)
  IN  [ i \in DOMAIN keys |->
          [ asset    |-> keys[i],
            count    |-> Len(Of(keys[i])),
            avg_buzz |-> Mean(SumBuzz(Of(keys[i])), Len(Of(keys[i]))) ] ]

\* sort_values(["count","avg_buzz"], ascending=[False, False]): a lexsort, stable
RECURSIVE InsertTrend(_, _)
InsertTrend(sorted, r) ==
  IF sorted = << >> THEN << r >>
  ELSE IF \/ sorted[1].count > r.count
          \/ sorted[1].count = r.count /\ ~MeanGreater(r.avg_buzz, sorted[1].avg_buzz)
       THEN << sorted[1] >> \o InsertTrend(Tail(sorted), r)
       ELSE << r >> \o sorted

RECURSIVE SortTrends(_)
SortTrends(rows) ==
  IF rows = << >> THEN << >>
  ELSE InsertTrend(SortTrends(SubSeq(rows, 1, Len(rows) - 1)), rows[Len(rows)])

TrendColumns == << "asset", "count", "avg_buzz" >>

aggregate_trends(rows, minutes) ==
  LET dff   == SelectSeq(rows, LAMBDA r : WithinWindow(r, minutes))
      pairs == Explode(dff)
  IN  IF rows = << >> \/ dff = << >> \/ pairs = << >>
      THEN [ columns |-> TrendColumns, rows |-> << >> ]
      ELSE [ columns |-> TrendColumns, rows |-> SortTrends(GroupByAsset(pairs)) ]

(***************************************************************************)
(* Specification of aggregate_trends over bounded tables                   *)
(***************************************************************************)
MaxRows == 3

OIL == << "O","I","L" >>
USD == << "U","S","D" >>

\* ", ".join(assets) if assets else ""  (assets: the sorted list of an asset set)
JoinAssets(S) == Join(<< ",", " " >>, SortedStrs(S))

\* Items as fetch_all shapes them (the three columns aggregate_trends reads): on
\* both sides of a 30 and of a 360 minute cutoff, with no, one and two assets.
TrendRowPool ==
  { [ time |-> tz_now,       assets |-> JoinAssets({ OIL }),        buzz_score |-> 100000 ],
    [ time |-> tz_now - 30,  assets |-> JoinAssets({ USD, US500 }), buzz_score |-> 66000 ],
    [ time |-> tz_now - 31,  assets |-> JoinAssets({ OIL }),        buzz_score |-> 33000 ],
    [ time |-> tz_now - 360, assets |-> JoinAssets({ USD }),        buzz_score |-> 48000 ],
    [ time |-> tz_now,       assets |-> JoinAssets({}),             buzz_score |-> 66000 ],
    [ time |-> tz_now - 361, assets |-> JoinAssets({ USD, OIL }),   buzz_score |-> 16500 ] }

\* two of the slider's options
WindowOptions == { 30, 360 }

InitTrends ==
  /\ now_ts = StartTs
  /\ tdf \in SeqsUpTo(TrendRowPool, MaxRows)
  /\ within_minutes \in WindowOptions
  /\ trends_out = None
  /\ IdleDetect /\ IdleFetch /\ IdleApp

AggregateTrends ==
  /\ trends_out = None
  /\ trends_out' = aggregate_trends(tdf, within_minutes)
  /\ UNCHANGED << tdf, within_minutes, now_ts, detVars, fetchVars, appVars >>

NextTrends == AggregateTrends

SpecTrends == InitTrends /\ [][NextTrends]_vars

\* Every asset the tables can produce.
AllAssets ==
  UNION { Range(KEYWORD_TO_ASSETS[i][2]) : i \in DOMAIN KEYWORD_TO_ASSETS }
  \cup { US100, US500 }

\* Asset a is one of the assets joined into the string s.
AssetIn(a, s) ==
  Contains(<< ",", " " >> \o s \o << "," >>, << ",", " " >> \o a \o << "," >>)

\* The retained items of the table that contain asset a.
RetainedWith(a) ==
  { i \in DOMAIN tdf : tdf[i].time >= tz_now - within_minutes /\ AssetIn(a, tdf[i].assets) }

RECURSIVE SumBuzzOf(_)
SumBuzzOf(I) ==
  IF I = {} THEN 0
  ELSE LET i == CHOOSE j \in I : TRUE IN tdf[i].buzz_score + SumBuzzOf(I \ {i})

\* C6: an asset has a row iff some retained item (time >= now - w) contains it; the
\* row's count is the number of those items and its avg_buzz the mean of their
\* buzz scores; items without assets and items outside the window add nothing.
C6_TrendCountsAndMeans ==
  trends_out # None =>
    /\ \A a \in AllAssets :
         LET n == Cardinality(RetainedWith(a))
             R == { j \in DOMAIN trends_out.rows : trends_out.rows[j].asset = a }
         IN  /\ Cardinality(R) = (IF n > 0 THEN 1 ELSE 0)
             /\ \A j \in R :
                  /\ trends_out.rows[j].count = n
                  /\ trends_out.rows[j].avg_buzz.num * n
                       = trends_out.rows[j].avg_buzz.den * SumBuzzOf(RetainedWith(a))
    /\ \A j \in DOMAIN trends_out.rows : trends_out.rows[j].asset \in AllAssets

\* An item exactly at the cutoff is counted, one just outside and one without
\* assets are not, and an asset's mean is taken over two items.
C6_Witness ==
  /\ trends_out # None
  /\ \E i \in DOMAIN tdf : tdf[i].time = tz_now - within_minutes /\ tdf[i].assets # << >>
  /\ \E i \in DOMAIN tdf : tdf[i].time < tz_now - within_minutes
  /\ \E j \in DOMAIN trends_out.rows :
       trends_out.rows[j].count = 2 /\ trends_out.rows[j].avg_buzz = Mean(66000 + 48000, 2)

(***************************************************************************)
(* The script: one rerun of app.py from top to bottom                      *)
(***************************************************************************)
UpperChar(c) ==
  IF c \in Range(LowerAZ) THEN UpperAZ[IndexIn(c, LowerAZ)] ELSE c

\* str.upper()
Upper(s) == [ i \in DOMAIN s |-> UpperChar(s[i]) ]

\* wl = [w.strip().upper() for w in watchlist_txt.split(",") if w.strip()]
ParseWatchlist(txt) ==
  LET parts == Split(txt, ",")
      RECURSIVE Clean(_)
      Clean(ps) == IF ps = << >> THEN << >>
                   ELSE (IF Strip(ps[1]) # << >> THEN << Upper(Strip(ps[1])) >> ELSE << >>)
                        \o Clean(Tail(ps))
  IN  Clean(parts)

\* df[mask].copy() with mask = any(w in s for w in wl), or df.copy() for an empty wl
WatchlistFilter(rows, wl) ==
  IF wl # << >>
  THEN SelectSeq(rows, LAMBDA r : \E i \in DOMAIN wl : Contains(r.assets, wl[i]))
  ELSE rows

\* df_w[df_w["buzz_score"] >= min_buzz]
ThresholdFilter(rows, min_buzz) == SelectSeq(rows, LAMBDA r : r.buzz_score >= min_buzz)

\* df.head(n)
HeadRows(rows, n) == SubSeq(rows, 1, Min(n, Len(rows)))

\* send_telegram: True iff the POST returned status 200; an exception gives False
send_telegram(outcome) == outcome = "200"

\* for _, r in to_alert.iterrows(): ok = send_telegram(...); if ok: sent += 1
Deliver(to_alert, outcomes) ==
  [ i \in DOMAIN to_alert |->
      [ id |-> to_alert[i].id, ok |-> send_telegram(outcomes[i]) ] ]

CountOk(attempts) == Cardinality({ i \in DOMAIN attempts : attempts[i].ok })

\* cfg.get("enable_alerts") and cfg.get("tg_token") and cfg.get("tg_chat_id"), with
\* cfg = {"enable_alerts": False} when config.json cannot be read
AlertsOn(c) ==
  c # None /\ c.enable_alerts /\ c.tg_token # << >> /\ c.tg_chat_id # << >>

\* the refresh decision: (last_fetch == 0) or need_refresh
NeedFetch(lf, now) == lf = 0 \/ (now - lf) > CACHE_TTL_MIN * 60

\* The calls of fetch_all in the refresh block: one in the branch that refreshes, and
\* one in the other branch, where fetch_all(feeds) is the argument of
\* st.session_state.get("df", ...) and is evaluated before the lookup
FetchCalls(need) == IF need THEN 1 ELSE 1

\* A plausible slip: the filtered table written back to the session
StoreFiltered(df, df_w) == [ df EXCEPT !.rows = df_w ]

\* st.session_state["df"] = df
Store(df, df_w) == df

TopAlerts == 5
DefaultWindow == 240

\* What a run that got past the refresh block shows and sends, given the table df it
\* uses, the sidebar values and the outcomes of the deliveries.
Display(df, conf, watchlist_txt, min_buzz, outcomes) ==
  IF df.rows = << >>
  THEN [ stopped |-> TRUE, df_w |-> << >>, trends |-> None,
         attempts |-> << >>, sent |-> 0, reported |-> FALSE ]
  ELSE LET wl       == ParseWatchlist(watchlist_txt)
           df_w     == ThresholdFilter(WatchlistFilter(df.rows, wl), min_buzz)
           attempts == IF AlertsOn(conf) THEN Deliver(HeadRows(df_w, TopAlerts), outcomes)
                       ELSE << >>
       IN  [ stopped  |-> FALSE,
             df_w     |-> df_w,
             trends   |-> aggregate_trends(df_w, DefaultWindow),
             attempts |-> attempts,
             sent     |-> CountOk(attempts),
             reported |-> CountOk(attempts) > 0 ]

(***************************************************************************)
(* Specification of the session: time passes, the script reruns            *)
(***************************************************************************)
MaxMinutes == 11

Wti  == << "w","t","i" >>
Ecb  == << "e","c","b" >>
Opec == << "o","p","e","c" >>

\* What the feeds may hold at a fetch: nothing (the only parser raises), or six items
\* from two feeds.
AppWorlds ==
  { << [ url |-> FeedUrls[1], raises |-> TRUE, entries |-> << >> ] >>,
    << [ url |-> FeedUrls[1], raises |-> FALSE,
         entries |-> << [ title |-> Fed, link |-> CnbcUrl, published_parsed |-> tz_now ],
                        [ title |-> Wti ],
                        [ summary |-> << "x" >> ] >> ],
       [ url |-> FeedUrls[2], raises |-> FALSE,
         entries |-> << [ title |-> << "y" >>, link |-> CnbcUrl ],
                        [ title |-> Ecb ],
                        [ title |-> Opec,
                          updated_parsed |-> tz_now - 60 * HALF_LIFE_HOURS ] >> ] >> }

\* the sidebar's text input: empty, or one asset in lower case
WatchlistTexts == { << >>, << " ","o","i","l" >> }

\* the threshold slider, in units of 1e-5: the default 0.3, and 0.9
MinBuzzValues == { 30000, 90000 }

\* "Guardar config Telegram": not pressed, or pressed with these sidebar values
ConfigInputs ==
  { None,
    [ enable_alerts |-> TRUE,  tg_token |-> << "t" >>, tg_chat_id |-> << "4" >> ],
    [ enable_alerts |-> TRUE,  tg_token |-> << " " >>, tg_chat_id |-> << "4" >> ] }

\* what the push endpoint does with the up to five requests of a run
DeliveryOutcomes ==
  { [ i \in 1 .. TopAlerts |-> "200" ],
    [ i \in 1 .. TopAlerts |-> "raise" ],
    [ i \in 1 .. TopAlerts |-> IF i = 1 THEN "500" ELSE "200" ] }

Init ==
  /\ now_ts = StartTs
  /\ session_df = None
  /\ last_fetch = 0
  /\ cfg = None
  /\ run = None
  /\ IdleDetect /\ IdleFetch /\ IdleTrends

\* time passes between two runs of the script
Tick ==
  /\ \E minutes \in { CACHE_TTL_MIN, CACHE_TTL_MIN + 1 } :
       /\ now_ts + 60 * minutes <= StartTs + 60 * MaxMinutes
       /\ now_ts' = now_ts + 60 * minutes
  /\ UNCHANGED << session_df, last_fetch, cfg, run, detVars, fetchVars, trendVars >>

\* One run of the script, top to bottom.  The sidebar's values, what the feeds hold
\* and what the push endpoint answers are the run's inputs.
Rerun ==
  \E save \in ConfigInputs, update \in BOOLEAN, min_buzz \in MinBuzzValues :
    LET conf == IF save = None THEN cfg
                ELSE [ enable_alerts |-> save.enable_alerts,
                       tg_token      |-> Strip(save.tg_token),
                       tg_chat_id    |-> Strip(save.tg_chat_id),
                       min_buzz      |-> min_buzz ]
        lf   == IF update THEN 0 ELSE last_fetch
        seen == [ pressed |-> update, had_df |-> session_df # None,
                  last_fetch |-> last_fetch ]
    IN  /\ now_ts' = now_ts
        /\ UNCHANGED << detVars, fetchVars, trendVars >>
        /\ \/ \* refresh_min > 0 and st.autorefresh(...) raises: the run ends before
              \* the refresh block
              /\ \E refresh_min \in { 5 } : refresh_min > 0
              /\ cfg' = conf
              /\ last_fetch' = lf
              /\ session_df' = session_df
              /\ run' = [ seen |-> seen, reached |-> FALSE, fetches |-> 0 ]
           \/ \* refresh_min = 0, or st.autorefresh(...) returns
              \E feeds \in AppWorlds :
                \E fetched \in fetch_all(feeds, MAX_ITEMS_PER_FEED) :
                  \E watchlist_txt \in WatchlistTexts :
                    LET df   == IF NeedFetch(lf, now_ts) \/ session_df = None
                                THEN fetched ELSE session_df
                    IN  \E outcomes \in (IF AlertsOn(conf) /\ df.rows # << >>
                                         THEN DeliveryOutcomes
                                         ELSE { [ i \in 1 .. TopAlerts |-> "200" ] }) :
                          LET show == Display(df, conf, watchlist_txt, min_buzz, outcomes)
                          IN  /\ cfg' = conf
                              /\ IF NeedFetch(lf, now_ts)
                                 THEN /\ session_df' = Store(df, show.df_w)
                                      /\ last_fetch' = now_ts
                                 ELSE /\ session_df' = session_df
                                      /\ last_fetch' = lf
                              /\ run' = [ seen |-> seen, reached |-> TRUE,
                                          refreshed |-> NeedFetch(lf, now_ts),
                                          fetches |-> FetchCalls(NeedFetch(lf, now_ts)),
                                          df |-> df, min_buzz |-> min_buzz,
                                          show |-> show ]

Next == Tick \/ Rerun

Spec == Init /\ [][Next]_vars

\* The items of the table the run used whose buzz_score is at or above the threshold,
\* in rank order.
AboveThreshold == SelectSeq(run.df.rows, LAMBDA r : r.buzz_score >= run.min_buzz)

\* C8: with alerts enabled and credentials present, one delivery each is attempted
\* for at most 5 items, the highest-ranked items at or above the minimum buzz
\* threshold; no delivery is retried; the count is the number of successes.
C8_AlertsTopFiveAboveThreshold ==
  (run # None /\ run.reached /\ AlertsOn(cfg)) =>
    /\ Len(run.show.attempts) <= 5
    /\ [ i \in DOMAIN run.show.attempts |-> run.show.attempts[i].id ]
         = [ i \in DOMAIN HeadRows(AboveThreshold, 5) |-> HeadRows(AboveThreshold, 5)[i].id ]
    /\ run.show.sent = Cardinality({ i \in DOMAIN run.show.attempts : run.show.attempts[i].ok })

\* The tables a fetch can return at the current time.
FetchResults == UNION { fetch_all(w, MAX_ITEMS_PER_FEED) : w \in AppWorlds }

\* C9: the stored snapshot changes only by being replaced with the result of a new
\* fetch, in a run that also sets last_fetch to its timestamp; the watchlist and
\* threshold filters, the trends, the export and the alerts leave it as it is.
C9_SnapshotReplacedWhole ==
  [][ session_df' # session_df =>
        /\ run'.reached /\ run'.refreshed
        /\ session_df' \in FetchResults
        /\ session_df' = run'.df
        /\ last_fetch' = now_ts' ]_vars

\* A run that filtered rows away, computed trends and sent alerts from a snapshot of
\* six rows that is still stored whole.
C9_Witness ==
  /\ run # None /\ run.reached
  /\ session_df # None /\ Len(session_df.rows) = 6
  /\ run.show.df_w # << >> /\ Len(run.show.df_w) < Len(session_df.rows)
  /\ run.show.trends # None /\ run.show.trends.rows # << >>
  /\ run.show.attempts # << >>
  /\ last_fetch = now_ts

\* The session cache was valid when the run started.
CacheValid ==
  /\ run.seen.had_df
  /\ ~run.seen.pressed
  /\ run.seen.last_fetch # 0
  /\ now_ts - run.seen.last_fetch <= CACHE_TTL_MIN * 60

\* C10: a run that finds a valid cache (snapshot stored, button not pressed,
\* last_fetch not 0 and no older than CACHE_TTL_MIN minutes) performs no fetch and
\* shows the stored snapshot; every other run performs exactly one fetch.
C10_FetchOnlyWhenInvalid ==
  (run # None /\ run.reached) =>
    IF CacheValid
    THEN run.fetches = 0 /\ run.df = session_df
    ELSE run.fetches = 1

====
